---- MODULE Spec2Model ----
(***************************************************************************)
(* Model of docs/conf.py, the Sphinx / Jupyter-Book configuration module   *)
(* of CFSpy_docs.                                                          *)
(*                                                                         *)
(* The program is the module body (five top-level statements, executed in  *)
(* order when the documentation engine evaluates the file) and the         *)
(* callback setup(app) the module defines, which the engine then invokes   *)
(* with its application handle.                                            *)
(*                                                                         *)
(* State:                                                                  *)
(*   pc    - the next top-level statement of conf.py to execute            *)
(*   conf  - the module namespace: a function from the names bound so far  *)
(*           to their values (a Python assignment binds or rebinds a name) *)
(*   app   - the application handle passed to setup: the stylesheet and    *)
(*           script assets registered on it, in registration order         *)
(*   calls - how many times setup(app) has been invoked                    *)
(*                                                                         *)
(* The engine itself (extension loading, theme merging, rendering, the     *)
(* nitpicky check, substitution) is not part of the repository and is not  *)
(* modelled.  The only engine operation conf.py calls is the handle's      *)
(* add_css_file; it is modelled by its interface: it registers the named   *)
(* stylesheet after the ones already registered.                           *)
(***************************************************************************)
EXTENDS Naturals, Sequences, FiniteSets, TLC

VARIABLES pc, conf, app, calls

vars == <<pc, conf, app, calls>>

(* ------------------------------------------------------------------ *)
(* Bounds of the model                                                 *)
(* ------------------------------------------------------------------ *)

\* Most assets of each kind registered on the handle before setup runs.
MaxPre == 2

\* Most invocations of setup(app) in one run (the engine invokes it once).
MaxSetupCalls == 1

\* Assets a theme or another extension may have registered beforehand.
ThemeCss == {"styles/theme.css", "pygments.css"}
ThemeJs == {"scripts/theme.js", "doctools.js"}

SeqsUpTo(S, n) == UNION {[1..k -> S] : k \in 0..n}

(* ------------------------------------------------------------------ *)
(* Values conf.py declares                                             *)
(* ------------------------------------------------------------------ *)

\* conf.py lines 6-13
ExtensionsValue ==
    << "sphinx.ext.autodoc",
       "sphinx.ext.napoleon",
       "sphinx.ext.mathjax",
       "sphinx.ext.viewcode",
       "sphinx.ext.graphviz",
       "sphinxcontrib.mermaid" >>

\* conf.py lines 28-32
ThemeOptionsValue ==
    [use_download_button |-> TRUE, navigation_depth |-> 4]

\* conf.py line 38
NitpickyValue == FALSE

\* conf.py lines 41-43: the text between the triple quotes, line by line
EpilogValue == << "", ".. |project| replace:: CFSpy", "" >>

\* conf.py line 20: the path setup passes to add_css_file
CustomCss == "assets/css/custom.css"

\* The configuration names C7 speaks of.
ConfigNames == {"extensions", "html_theme_options", "nitpicky", "rst_epilog"}

(* ------------------------------------------------------------------ *)
(* Helpers                                                             *)
(* ------------------------------------------------------------------ *)

\* A top-level assignment `name = value`: binds name in the namespace,
\* replacing an earlier binding of the same name.
Bind(ns, name, value) == (name :> value) @@ ns

\* app.add_js_file(filename): the handle registers one more script.
\* (conf.py line 21 holds this call commented out.)
add_js_file(a, filename) ==
    [a EXCEPT !.js_files = Append(@, filename)]

\* app.add_css_file(filename): the handle registers one more stylesheet.
add_css_file(a, filename) ==
    [a EXCEPT !.css_files = Append(@, filename)]

\* Mutant of setup: line 21 active, so a script is registered as well.
setup_with_js(st) ==
    [st EXCEPT !.app = add_js_file(add_css_file(@, CustomCss),
                                   "assets/js/custom.js")]

\* Mutant of setup: the callback also flips the strictness flag.
setup_sets_nitpicky(st) ==
    [conf |-> Bind(st.conf, "nitpicky", TRUE),
     app  |-> add_css_file(st.app, CustomCss)]

\* def setup(app) (conf.py lines 18-21).  The body can reach the module
\* namespace and the handle, so it maps the pair of them; it makes one call,
\* app.add_css_file("assets/css/custom.css"), and assigns nothing.
setup(st) ==
    [st EXCEPT !.app = add_css_file(@, CustomCss)]

(* ------------------------------------------------------------------ *)
(* Initial state: nothing of conf.py evaluated yet; the handle carries *)
(* whatever the theme registered.                                      *)
(* ------------------------------------------------------------------ *)

Init ==
    /\ pc = "extensions"
    /\ conf = <<>>
    /\ app \in [css_files : SeqsUpTo(ThemeCss, MaxPre),
                js_files  : SeqsUpTo(ThemeJs, MaxPre)]
    /\ calls = 0

(* ------------------------------------------------------------------ *)
(* The module body, one action per top-level statement                 *)
(* ------------------------------------------------------------------ *)

\* extensions = [...]
AssignExtensions ==
    /\ pc = "extensions"
    /\ conf' = Bind(conf, "extensions", ExtensionsValue)
    /\ pc' = "def_setup"
    /\ UNCHANGED <<app, calls>>

\* def setup(app): ...   (binds the name; the body does not run)
DefSetup ==
    /\ pc = "def_setup"
    /\ conf' = Bind(conf, "setup", "function")
    /\ pc' = "html_theme_options"
    /\ UNCHANGED <<app, calls>>

\* html_theme_options = {...}
AssignThemeOptions ==
    /\ pc = "html_theme_options"
    /\ conf' = Bind(conf, "html_theme_options", ThemeOptionsValue)
    /\ pc' = "nitpicky"
    /\ UNCHANGED <<app, calls>>

\* nitpicky = False
AssignNitpicky ==
    /\ pc = "nitpicky"
    /\ conf' = Bind(conf, "nitpicky", NitpickyValue)
    /\ pc' = "rst_epilog"
    /\ UNCHANGED <<app, calls>>

\* rst_epilog = """..."""
AssignEpilog ==
    /\ pc = "rst_epilog"
    /\ conf' = Bind(conf, "rst_epilog", EpilogValue)
    /\ pc' = "loaded"
    /\ UNCHANGED <<app, calls>>

\* The engine invokes the callback the evaluated module defines.
CallSetup ==
    /\ pc = "loaded"
    /\ "setup" \in DOMAIN conf
    /\ calls < MaxSetupCalls
    /\ LET r == setup([conf |-> conf, app |-> app])
       IN  /\ conf' = r.conf
           /\ app' = r.app
    /\ calls' = calls + 1
    /\ UNCHANGED pc

Next ==
    \/ AssignExtensions
    \/ DefSetup
    \/ AssignThemeOptions
    \/ AssignNitpicky
    \/ AssignEpilog
    \/ CallSetup

Spec == Init /\ [][Next]_vars

(* ------------------------------------------------------------------ *)
(* Sanity                                                              *)
(* ------------------------------------------------------------------ *)

TypeOK ==
    /\ pc \in {"extensions", "def_setup", "html_theme_options", "nitpicky",
               "rst_epilog", "loaded"}
    /\ DOMAIN conf \subseteq ConfigNames \cup {"setup"}
    /\ calls \in 0..(MaxSetupCalls + 1)

(* ------------------------------------------------------------------ *)
(* Claims                                                              *)
(* ------------------------------------------------------------------ *)

\* C1: whatever stylesheets and scripts are registered on the handle before
\* the call, a call of setup(app) leaves the registered stylesheets as they
\* were, in the same order, followed by exactly one new one,
\* "assets/css/custom.css", and leaves the registered scripts exactly as
\* they were.
C1_SetupAddsOneStylesheet ==
    [][calls' # calls =>
         /\ app'.css_files = Append(app.css_files, "assets/css/custom.css")
         /\ app'.js_files = app.js_files]_vars

\* C1 witness: setup has run on a handle that already carried two
\* stylesheets and a script; they are still there, before the new one.
C1_Witness ==
    /\ calls = 1
    /\ Len(app.css_files) = 3
    /\ app.css_files[1] \in ThemeCss
    /\ app.css_files[2] \in ThemeCss
    /\ app.css_files[3] = "assets/css/custom.css"
    /\ Len(app.js_files) >= 1

\* C7: once evaluation of conf.py has bound extensions, html_theme_options,
\* nitpicky or rst_epilog, no later step (a later statement of the module,
\* or the setup callback) unbinds it or changes its value.
C7_ConfigWriteOnce ==
    [][\A n \in ConfigNames \cap DOMAIN conf :
          /\ n \in DOMAIN conf'
          /\ conf'[n] = conf[n]]_vars

\* C7 witness: the module is fully evaluated, setup has run, and the four
\* values are the declared ones.
C7_Witness ==
    /\ pc = "loaded"
    /\ calls = 1
    /\ ConfigNames \subseteq DOMAIN conf
    /\ conf["extensions"] = ExtensionsValue
    /\ conf["html_theme_options"] = ThemeOptionsValue
    /\ conf["nitpicky"] = FALSE
    /\ conf["rst_epilog"] = EpilogValue

====
